---- MODULE Spec2Model ----
(***************************************************************************)
(* Two-party signing of a LoanSet transaction.                             *)
(*                                                                         *)
(* Three programs are modelled, selected by the variable script:           *)
(*   "test"    the flow of local_signing_test.ts, whose copy with the      *)
(*             helper functions inlined is src/unnamed/part_000;           *)
(*   "example" the flow of local_signing_example.js;                       *)
(*   "call"    signLoanSetByCounterparty applied to arbitrary inputs.      *)
(*                                                                         *)
(* JavaScript values are modelled as follows.  A field value is a record   *)
(* [k, a, s]: a string (k = "str", text a), a signature (k = "sig", made   *)
(* with private key a over the payload fields s), a nested object          *)
(* (k = "obj", fields s), a hash (k = "hash", of the fields s) or          *)
(* undefined.  An object is the sequence of its <<name, value>> pairs in   *)
(* insertion order.  A top-level value is [type, v]: type is what typeof   *)
(* reports, v the pairs of an object or of a serialized hex string.        *)
(***************************************************************************)
EXTENDS Integers, Sequences, FiniteSets, TLC

VARIABLES
    script,         \* which program runs
    pc,             \* position of the program
    wallet,         \* the counterparty's wallet (borrowerWallet in the scripts)
    unsignedTx,     \* loanSetTx / unsignedTx: the transaction before signing
    transaction,    \* what the counterparty step is given: tx_blob / loanBrokerSignedTx
    signingInput,   \* the object handed to encodeForSigning by the counterparty step
    result,         \* what the counterparty step produced: {tx, tx_blob, hash} or an error
    calls,          \* number of calls of signLoanSetByCounterparty made
    submitted,      \* the value passed to client.submit
    engine_result,  \* response.result.engine_result
    txHash,         \* the hash the poll waits for
    i,              \* loop counter of the validation poll
    nFalse,         \* status requests answered validated: false
    nThrow,         \* status requests that threw
    validated,      \* a status request answered validated: true
    meta,           \* meta.TransactionResult of the validated transaction
    connected,      \* the client is connected
    isValid,        \* what xrpl.verifySignature answered for the signed blob
    error           \* the error the program ended with

vars == <<script, pc, wallet, unsignedTx, transaction, signingInput, result, calls,
          submitted, engine_result, txHash, i, nFalse, nThrow, validated,
          meta, connected, isValid, error>>

----------------------------------------------------------------------------
(* Bounds and program constants *)

MaxCalls == 2

maxRetries == 20

PollLimit == 20

Limit == IF script = "example" THEN maxRetries ELSE PollLimit

\* the loop condition with <= in place of <
LoopConditionInclusive == i <= Limit

\* the condition of the for loop
LoopCondition == i < Limit

----------------------------------------------------------------------------
(* Values *)

Str(a) == [k |-> "str", a |-> a, s |-> <<>>]

Obj(fields) == [k |-> "obj", a |-> "", s |-> fields]

UndefinedV == [k |-> "undefined", a |-> "", s |-> <<>>]

Undefined == [type |-> "undefined", v |-> <<>>]

Object(fields) == [type |-> "object", v |-> fields]

HexString(fields) == [type |-> "string", v |-> fields]

loanBrokerWallet == [publicKey |-> "pubBroker", privateKey |-> "privBroker", address |-> "rBroker"]

borrowerWallet == [publicKey |-> "pubBorrower", privateKey |-> "privBorrower", address |-> "rBorrower"]

Wallets == {loanBrokerWallet, borrowerWallet}

TxTypes == {"LoanSet", "Payment"}

SeqNums == {"7", "8"}

----------------------------------------------------------------------------
(* JavaScript objects *)

Names(fields) == {fields[n][1] : n \in 1..Len(fields)}

Has(fields, name) == name \in Names(fields)

Get(fields, name) ==
    IF Has(fields, name)
    THEN LET n == CHOOSE m \in 1..Len(fields) : fields[m][1] = name IN fields[n][2]
    ELSE UndefinedV

\* obj[name] = value: replaces the value in place, or appends a new property
SetField(fields, name, value) ==
    IF Has(fields, name)
    THEN [n \in 1..Len(fields) |-> IF fields[n][1] = name THEN <<name, value>> ELSE fields[n]]
    ELSE Append(fields, <<name, value>>)

\* delete obj[name]
DeleteField(fields, name) == SelectSeq(fields, LAMBDA p : p[1] # name)

\* the properties of an object as a set, insertion order forgotten
FieldSet(fields) == {fields[n] : n \in 1..Len(fields)}

----------------------------------------------------------------------------
(* ripple-binary-codec and ripple-keypairs *)

\* the serialization order of the fields: by type code, then by field code
CanonicalOrder ==
    <<"TransactionType", "Sequence", "PaymentTotal", "LoanBrokerID",
      "SigningPubKey", "TxnSignature", "Account", "Counterparty",
      "PrincipalRequested", "CounterpartySignature">>

\* fields whose definition has isSigningField: false
NonSigningFields == {"TxnSignature", "CounterpartySignature"}

HashPrefixTransactionSig == <<"HashPrefix", Str("53545800")>>

RECURSIVE SerializeFields(_, _)
SerializeFields(fields, signingFieldsOnly) ==
    LET kept == SelectSeq(CanonicalOrder,
                    LAMBDA name : /\ Has(fields, name)
                                  /\ ~(signingFieldsOnly /\ name \in NonSigningFields))
        ser(value) == IF value.k = "obj"
                      THEN Obj(SerializeFields(value.s, signingFieldsOnly))
                      ELSE value
    IN [n \in 1..Len(kept) |-> <<kept[n], ser(Get(fields, kept[n]))>>]

encode(tx) == HexString(SerializeFields(tx.v, FALSE))

decode(blob) == Object(blob.v)

encodeForSigning(tx) ==
    HexString(<<HashPrefixTransactionSig>> \o SerializeFields(tx.v, TRUE))

sign(payload, privateKey) == [k |-> "sig", a |-> privateKey, s |-> payload.v]

hashSignedTx(serialized) == [k |-> "hash", a |-> "", s |-> serialized.v]

----------------------------------------------------------------------------
(* Helper functions of src/unnamed/part_000 *)

\* returns a copy of an object as it is, without the encode/decode round trip
getDecodedTransactionNoRoundTrip(txOrBlob) ==
    IF txOrBlob.type = "object"
    THEN txOrBlob
    ELSE decode(txOrBlob)

getDecodedTransaction(txOrBlob) ==
    IF txOrBlob.type = "object"
    THEN decode(encode(txOrBlob))
    ELSE decode(txOrBlob)

\* returns the caller's own object when given an object
getDecodedTransactionInPlace(txOrBlob) ==
    IF txOrBlob.type = "object"
    THEN [tx |-> txOrBlob, shared |-> TRUE]
    ELSE [tx |-> decode(txOrBlob), shared |-> FALSE]

\* lines 10-15 as a reference: the object returned, and whether it is the caller's
\* object; both branches return the object decode has just built
getDecodedTransactionRef(txOrBlob) ==
    [tx |-> getDecodedTransaction(txOrBlob), shared |-> FALSE]

\* signs the full serialization, signature fields included
computeSignatureOverEncode(tx, privateKey) == sign(encode(tx), privateKey)

computeSignature(tx, privateKey) == sign(encodeForSigning(tx), privateKey)

UnsupportedTransactionType == "Transaction must be a LoanSet transaction."

AlreadyCounterSigned == "Transaction is already signed by the counterparty."

MissingFirstPartySignature == "Transaction must be first signed by first party."

NoError == [msg |-> "", hash |-> UndefinedV]

Thrown(msg) ==
    [error |-> msg, tx |-> Undefined, tx_blob |-> Undefined, hash |-> UndefinedV,
     signingInput |-> Undefined]

\* without the check of lines 34-36
preconditionErrorNoCounterCheck(tx) ==
    IF Get(tx.v, "TransactionType") # Str("LoanSet")
    THEN UnsupportedTransactionType
    ELSE IF ~Has(tx.v, "TxnSignature") \/ ~Has(tx.v, "SigningPubKey")
    THEN MissingFirstPartySignature
    ELSE ""

\* line 37 with && in place of ||
preconditionErrorBothMissing(tx) ==
    IF Get(tx.v, "TransactionType") # Str("LoanSet")
    THEN UnsupportedTransactionType
    ELSE IF Has(tx.v, "CounterpartySignature")
    THEN AlreadyCounterSigned
    ELSE IF ~Has(tx.v, "TxnSignature") /\ ~Has(tx.v, "SigningPubKey")
    THEN MissingFirstPartySignature
    ELSE ""

\* the type check placed after the signature checks
preconditionErrorTypeLast(tx) ==
    IF Has(tx.v, "CounterpartySignature")
    THEN AlreadyCounterSigned
    ELSE IF ~Has(tx.v, "TxnSignature") \/ ~Has(tx.v, "SigningPubKey")
    THEN MissingFirstPartySignature
    ELSE IF Get(tx.v, "TransactionType") # Str("LoanSet")
    THEN UnsupportedTransactionType
    ELSE ""

\* the check of line 37 placed before the check of line 34
preconditionErrorSignatureFirst(tx) ==
    IF Get(tx.v, "TransactionType") # Str("LoanSet")
    THEN UnsupportedTransactionType
    ELSE IF ~Has(tx.v, "TxnSignature") \/ ~Has(tx.v, "SigningPubKey")
    THEN MissingFirstPartySignature
    ELSE IF Has(tx.v, "CounterpartySignature")
    THEN AlreadyCounterSigned
    ELSE ""

\* lines 31-39: the message of the first check that fails, "" when all pass
preconditionError(tx) ==
    IF Get(tx.v, "TransactionType") # Str("LoanSet")
    THEN UnsupportedTransactionType
    ELSE IF Has(tx.v, "CounterpartySignature")
    THEN AlreadyCounterSigned
    ELSE IF ~Has(tx.v, "TxnSignature") \/ ~Has(tx.v, "SigningPubKey")
    THEN MissingFirstPartySignature
    ELSE ""

\* removes the first party's signature fields from the object it returns
attachDroppingFirstParty(tx, w) ==
    Object(SetField(DeleteField(DeleteField(tx.v, "TxnSignature"), "SigningPubKey"),
               "CounterpartySignature",
               Obj(<<<<"SigningPubKey", Str(w.publicKey)>>,
                     <<"TxnSignature", computeSignature(tx, w.privateKey)>>>>)))

\* copies the key already on the transaction into the counterparty signature
attachWithTransactionKey(tx, w) ==
    Object(SetField(tx.v, "CounterpartySignature",
               Obj(<<<<"SigningPubKey", Get(tx.v, "SigningPubKey")>>,
                     <<"TxnSignature", computeSignature(tx, w.privateKey)>>>>)))

\* lines 41-44: the signature is computed over tx before the property is assigned
attachCounterpartySignature(tx, w) ==
    Object(SetField(tx.v, "CounterpartySignature",
               Obj(<<<<"SigningPubKey", Str(w.publicKey)>>,
                     <<"TxnSignature", computeSignature(tx, w.privateKey)>>>>)))

\* The value returned or the error thrown; signingInput records the argument of
\* encodeForSigning at line 18 (the tx of line 43, CounterpartySignature not yet set).
\* serializes before the counterparty signature is attached
signLoanSetByCounterpartyStaleBlob(w, txOrBlob) ==
    LET ref == getDecodedTransactionRef(txOrBlob)
        tx == ref.tx
    IN  IF preconditionError(tx) # ""
        THEN Thrown(preconditionError(tx)) @@ [argument |-> txOrBlob]
        ELSE LET serialized == encode(tx)
                 signed == attachCounterpartySignature(tx, w)
             IN  [error |-> "", tx |-> signed, tx_blob |-> serialized,
                  hash |-> hashSignedTx(serialized), signingInput |-> tx,
                  argument |-> IF ref.shared THEN signed ELSE txOrBlob]

\* computes the signature before the checks of lines 31-39
signLoanSetByCounterpartySignFirst(w, txOrBlob) ==
    LET ref == getDecodedTransactionRef(txOrBlob)
        tx == ref.tx
        signed == attachCounterpartySignature(tx, w)
        serialized == encode(signed)
    IN  IF preconditionError(tx) # ""
        THEN [error |-> preconditionError(tx), tx |-> Undefined, tx_blob |-> Undefined,
              hash |-> UndefinedV, signingInput |-> tx, argument |-> txOrBlob]
        ELSE [error |-> "", tx |-> signed, tx_blob |-> serialized,
              hash |-> hashSignedTx(serialized), signingInput |-> tx,
              argument |-> IF ref.shared THEN signed ELSE txOrBlob]

\* argument is the caller's value after the call: line 41 assigns to the object
\* line 29 obtained, which changes the caller's value only if it is the same object.
signLoanSetByCounterparty(w, txOrBlob) ==
    LET ref == getDecodedTransactionRef(txOrBlob)
        tx == ref.tx
    IN  IF preconditionError(tx) # ""
        THEN Thrown(preconditionError(tx)) @@ [argument |-> txOrBlob]
        ELSE LET signed == attachCounterpartySignature(tx, w)
                 serialized == encode(signed)
             IN  [error |-> "", tx |-> signed, tx_blob |-> serialized,
                  hash |-> hashSignedTx(serialized), signingInput |-> tx,
                  argument |-> IF ref.shared THEN signed ELSE txOrBlob]

----------------------------------------------------------------------------
(* xrpl.Wallet.sign, as the scripts use it (first-party signing) *)

FirstPartySignedObject(w, tx) ==
    LET withKey == Object(SetField(tx.v, "SigningPubKey", Str(w.publicKey)))
    IN  Object(SetField(withKey.v, "TxnSignature",
                   sign(encodeForSigning(withKey), w.privateKey)))

walletSign(w, tx) ==
    LET serialized == encode(FirstPartySignedObject(w, tx))
    IN  [tx_blob |-> serialized, hash |-> hashSignedTx(serialized)]

verifySignature(blob) ==
    LET tx == decode(blob)
        sig == Get(tx.v, "TxnSignature")
        key == Get(tx.v, "SigningPubKey")
    IN  /\ sig.k = "sig"
        /\ sig.s = encodeForSigning(tx).v
        /\ \E w \in Wallets : w.publicKey = key.a /\ w.privateKey = sig.a

----------------------------------------------------------------------------
(* The counterparty step of local_signing_example.js, lines 76-120 *)

\* deletes TxnSignature only, leaving SigningPubKey in the hashed copy
exampleKeepingSigningPubKey(w, loanBrokerSignedTx) ==
    LET txForCounterpartySigning ==
            Object(DeleteField(loanBrokerSignedTx.v, "TxnSignature"))
        signingHash == encodeForSigning(txForCounterpartySigning)
        finalTx == Object(SetField(loanBrokerSignedTx.v, "CounterpartySignature",
                              Obj(<<<<"TxnSignature", sign(signingHash, w.privateKey)>>,
                                    <<"SigningPubKey", Str(w.publicKey)>>>>)))
    IN  [error |-> "", tx |-> finalTx, tx_blob |-> encode(finalTx),
         hash |-> UndefinedV, signingInput |-> txForCounterpartySigning,
         argument |-> loanBrokerSignedTx]

\* lines 77-78 applied to the copy of line 76
deleteFirstPartySignature(copy) ==
    Object(DeleteField(DeleteField(copy.v, "TxnSignature"), "SigningPubKey"))

\* builds finalTx from the stripped copy instead of loanBrokerSignedTx
exampleFinalFromCopy(w, loanBrokerSignedTx) ==
    LET txForCounterpartySigning == deleteFirstPartySignature(loanBrokerSignedTx)
        signingHash == encodeForSigning(txForCounterpartySigning)
        finalTx == Object(SetField(txForCounterpartySigning.v, "CounterpartySignature",
                              Obj(<<<<"TxnSignature", sign(signingHash, w.privateKey)>>,
                                    <<"SigningPubKey", Str(w.publicKey)>>>>)))
    IN  [error |-> "", tx |-> finalTx, tx_blob |-> encode(finalTx),
         hash |-> UndefinedV, signingInput |-> txForCounterpartySigning,
         argument |-> loanBrokerSignedTx]

exampleCounterpartySign(w, loanBrokerSignedTx) ==
    LET txForCounterpartySigning == deleteFirstPartySignature(loanBrokerSignedTx)
        signingHash == encodeForSigning(txForCounterpartySigning)
        borrowerTxnSignature == sign(signingHash, w.privateKey)
        borrowerSigningPubKey == Str(w.publicKey)
        finalTx == Object(SetField(loanBrokerSignedTx.v, "CounterpartySignature",
                              Obj(<<<<"TxnSignature", borrowerTxnSignature>>,
                                    <<"SigningPubKey", borrowerSigningPubKey>>>>)))
        finalTxBlob == encode(finalTx)
    IN  [error |-> "", tx |-> finalTx, tx_blob |-> finalTxBlob,
         hash |-> UndefinedV, signingInput |-> txForCounterpartySigning,
         argument |-> loanBrokerSignedTx]

----------------------------------------------------------------------------
(* Inputs *)

\* the transaction literal of each script, before autofill
LoanSetLiteral(type) ==
    Object(<<<<"TransactionType", Str(type)>>,
             <<"Account", Str(loanBrokerWallet.address)>>,
             <<"LoanBrokerID", Str("loanBrokerID")>>,
             <<"PrincipalRequested", Str("5000000")>>,
             <<"Counterparty", Str(borrowerWallet.address)>>,
             <<"PaymentTotal", Str("1")>>>>)

autofill(tx, seq) == Object(SetField(tx.v, "Sequence", Str(seq)))

\* a counterparty signature made by someone else, for inputs that already carry one
ForeignCounterpartySignature(tx) ==
    Obj(<<<<"SigningPubKey", Str(borrowerWallet.publicKey)>>,
          <<"TxnSignature", sign(encodeForSigning(tx), borrowerWallet.privateKey)>>>>)

\* inputs of a direct call: a first-party-signed transaction of either type, some
\* of its signature fields removed, with or without a counterparty signature,
\* as an object in insertion order or as its serialization
CallInputs ==
    { LET signed   == FirstPartySignedObject(loanBrokerWallet,
                          autofill(LoanSetLiteral(c.type), c.seq))
          stripped == Object(SelectSeq(signed.v, LAMBDA p : p[1] \notin c.drop))
          full     == IF c.counter
                      THEN Object(SetField(stripped.v, "CounterpartySignature",
                                      ForeignCounterpartySignature(stripped)))
                      ELSE stripped
      IN  IF c.blob THEN encode(full) ELSE full
      : c \in [type : TxTypes, seq : SeqNums,
               drop : SUBSET {"TxnSignature", "SigningPubKey", "TransactionType"},
               counter : BOOLEAN, blob : BOOLEAN] }

EngineResults == {"tesSUCCESS", "temBAD_SIGNATURE"}

TransactionResults == {"tesSUCCESS", "tecINSUFFICIENT_FUNDS"}

ValidationTimeout == "Transaction ${hash} not validated after ${maxRetries} attempts"

InvalidSignature == "Invalid loan broker signature!"

----------------------------------------------------------------------------
(* Initial state: the client is connected, the wallets are created *)

Init ==
    /\ script \in {"test", "example", "call"}
    /\ pc = IF script = "call" THEN "call" ELSE "autofill"
    /\ wallet \in IF script = "call" THEN Wallets ELSE {borrowerWallet}
    /\ unsignedTx = IF script = "call" THEN Undefined ELSE LoanSetLiteral("LoanSet")
    /\ transaction \in IF script = "call" THEN CallInputs ELSE {Undefined}
    /\ signingInput = Undefined
    /\ result = [error |-> "", tx |-> Undefined, tx_blob |-> Undefined, hash |-> UndefinedV]
    /\ calls = 0
    /\ submitted = Undefined
    /\ engine_result = ""
    /\ txHash = UndefinedV
    /\ i = 0
    /\ nFalse = 0
    /\ nThrow = 0
    /\ validated = FALSE
    /\ meta = ""
    /\ connected = (script # "call")
    /\ isValid = FALSE
    /\ error = NoError

pollVars == <<i, nFalse, nThrow, validated, meta>>

netVars == <<submitted, engine_result, txHash, connected>>

Returned(r) == [error |-> r.error, tx |-> r.tx, tx_blob |-> r.tx_blob, hash |-> r.hash]

----------------------------------------------------------------------------
(* A direct call of signLoanSetByCounterparty, and a call on its own output *)

CoSignCall ==
    /\ script = "call"
    /\ pc = "call"
    /\ calls < MaxCalls
    /\ LET r == signLoanSetByCounterparty(wallet, transaction)
       IN  /\ result' = Returned(r)
           /\ signingInput' = IF r.signingInput # Undefined THEN r.signingInput
                               ELSE signingInput
           /\ transaction' = r.argument
           /\ error' = [msg |-> r.error, hash |-> UndefinedV]
           /\ pc' = IF r.error = "" THEN "returned" ELSE "thrown"
    /\ calls' = calls + 1
    /\ UNCHANGED <<script, isValid, wallet, unsignedTx, pollVars, netVars>>

CoSignAgain ==
    /\ script = "call"
    /\ pc = "returned"
    /\ transaction' \in {result.tx, result.tx_blob}
    /\ pc' = "call"
    /\ UNCHANGED <<script, isValid, wallet, unsignedTx, signingInput, result, calls, error,
                   pollVars, netVars>>

----------------------------------------------------------------------------
(* Steps shared by the two scripts *)

\* part_000 line 88; local_signing_example.js lines 31-43
Autofill ==
    /\ script \in {"test", "example"}
    /\ pc = "autofill"
    /\ \E seq \in SeqNums : unsignedTx' = autofill(unsignedTx, seq)
    /\ pc' = "sign"
    /\ UNCHANGED <<script, isValid, wallet, transaction, signingInput, result, calls, error,
                   pollVars, netVars>>

\* part_000 line 96 keeps the blob; local_signing_example.js lines 54-57 decode it
BrokerSign ==
    /\ script \in {"test", "example"}
    /\ pc = "sign"
    /\ LET tx_blob == walletSign(loanBrokerWallet, unsignedTx).tx_blob
       IN  transaction' = IF script = "test" THEN tx_blob ELSE decode(tx_blob)
    /\ pc' = IF script = "test" THEN "verify" ELSE "cosign"
    /\ UNCHANGED <<script, isValid, wallet, unsignedTx, signingInput, result, calls, error,
                   pollVars, netVars>>

\* What the call of xrpl.verifySignature at line 105 can answer.  The function
\* belongs to the library and the script acts on its answer only: it answers true
\* for no blob but one whose signature verifies, and it may answer false.
verifySignatureAnswers(blob) == {verifySignature(blob), FALSE}

\* lines 105-109 without the throw of lines 107-109
VerifyUnchecked ==
    /\ script = "test"
    /\ pc = "verify"
    /\ isValid' \in verifySignatureAnswers(transaction)
    /\ pc' = "cosign"
    /\ error' = error
    /\ UNCHANGED <<script, wallet, unsignedTx, transaction, signingInput, result, calls,
                   pollVars, netVars>>

\* part_000 lines 105-109: isValid is declared here; until then the variable
\* holds FALSE
Verify ==
    /\ script = "test"
    /\ pc = "verify"
    /\ isValid' \in verifySignatureAnswers(transaction)
    /\ IF isValid'
       THEN pc' = "cosign" /\ error' = error
       ELSE pc' = "crashed" /\ error' = [msg |-> InvalidSignature, hash |-> UndefinedV]
    /\ UNCHANGED <<script, wallet, unsignedTx, transaction, signingInput, result, calls,
                   pollVars, netVars>>

\* local_signing_example.js line 76: txForCounterpartySigning = {...loanBrokerSignedTx}
ExampleCopy ==
    /\ script = "example"
    /\ pc = "cosign"
    /\ signingInput' = transaction
    /\ pc' = "delete"
    /\ UNCHANGED <<script, isValid, wallet, unsignedTx, transaction, result, calls, error,
                   pollVars, netVars>>

\* local_signing_example.js lines 77-78
ExampleDelete ==
    /\ script = "example"
    /\ pc = "delete"
    /\ signingInput' = deleteFirstPartySignature(signingInput)
    /\ pc' = "hash"
    /\ UNCHANGED <<script, isValid, wallet, unsignedTx, transaction, result, calls, error,
                   pollVars, netVars>>

\* part_000 lines 117-120; local_signing_example.js lines 81-120, on the copy
\* prepared by lines 76-78
CounterpartySign ==
    /\ script \in {"test", "example"}
    /\ pc = IF script = "test" THEN "cosign" ELSE "hash"
    /\ LET r == IF script = "test"
                THEN signLoanSetByCounterparty(wallet, transaction)
                ELSE exampleCounterpartySign(wallet, transaction)
       IN  /\ result' = Returned(r)
           /\ signingInput' = IF r.signingInput # Undefined THEN r.signingInput
                               ELSE signingInput
           /\ transaction' = r.argument
           /\ error' = [msg |-> r.error, hash |-> UndefinedV]
           /\ pc' = IF r.error = "" THEN "submit" ELSE "crashed"
    /\ calls' = IF script = "test" THEN calls + 1 ELSE calls
    /\ UNCHANGED <<script, isValid, wallet, unsignedTx, pollVars, netVars>>

\* the hash the server reports for a submitted object or blob
SubmittedHash(tx) == hashSignedTx(IF tx.type = "object" THEN encode(tx) ELSE tx)

\* submits the first-party-signed value instead of the co-signed one
SubmitFirstPartySigned ==
    /\ script \in {"test", "example"}
    /\ pc = "submit"
    /\ submitted' = transaction
    /\ \/ \E r \in EngineResults :
             /\ engine_result' = r
             /\ txHash' = SubmittedHash(transaction)
             /\ pc' = IF script = "test" /\ r # "tesSUCCESS" THEN "disconnect" ELSE "poll"
             /\ error' = error
       \/ /\ UNCHANGED <<engine_result, txHash>>
          /\ pc' = IF script = "test" THEN "disconnect" ELSE "crashed"
          /\ error' = IF script = "test" THEN error
                      ELSE [msg |-> "submit failed", hash |-> UndefinedV]
    /\ UNCHANGED <<script, isValid, wallet, unsignedTx, transaction, signingInput, result, calls,
                   pollVars, connected>>

\* part_000 without the catch of lines 189-191: a throw of client.submit ends the
\* script
SubmitThrowEscapes ==
    /\ script \in {"test", "example"}
    /\ pc = "submit"
    /\ LET arg == IF script = "test" THEN result.tx ELSE result.tx_blob
       IN  /\ submitted' = arg
           /\ \/ \E r \in EngineResults :
                    /\ engine_result' = r
                    /\ txHash' = SubmittedHash(arg)
                    /\ pc' = IF script = "test" /\ r # "tesSUCCESS"
                             THEN "disconnect" ELSE "poll"
                    /\ error' = error
              \/ /\ UNCHANGED <<engine_result, txHash>>
                 /\ pc' = "crashed"
                 /\ error' = [msg |-> "submit failed", hash |-> UndefinedV]
    /\ UNCHANGED <<script, isValid, wallet, unsignedTx, transaction, signingInput, result, calls,
                   pollVars, connected>>

\* part_000 lines 138-149 and 178-191: the object is submitted inside try/catch,
\* and only tesSUCCESS leads to the poll.
\* local_signing_example.js lines 129-153: the blob is submitted, a throw is not
\* caught, and the poll follows whatever the engine result is.
Submit ==
    /\ script \in {"test", "example"}
    /\ pc = "submit"
    /\ LET arg == IF script = "test" THEN result.tx ELSE result.tx_blob
       IN  /\ submitted' = arg
           /\ \/ \E r \in EngineResults :
                    /\ engine_result' = r
                    /\ txHash' = SubmittedHash(arg)
                    /\ pc' = IF script = "test" /\ r # "tesSUCCESS"
                             THEN "disconnect" ELSE "poll"
                    /\ error' = error
              \/ /\ UNCHANGED <<engine_result, txHash>>
                 /\ pc' = IF script = "test" THEN "disconnect" ELSE "crashed"
                 /\ error' = IF script = "test" THEN error
                             ELSE [msg |-> "submit failed", hash |-> UndefinedV]
    /\ UNCHANGED <<script, isValid, wallet, unsignedTx, transaction, signingInput, result, calls,
                   pollVars, connected>>

\* a status request that throws ends the poll: the try/catch of the loop body missing
PollAttemptThrowEscapes ==
    /\ script \in {"test", "example"}
    /\ pc = "poll"
    /\ LoopCondition
    /\ \/ \E r \in TransactionResults :
             /\ validated' = TRUE
             /\ meta' = r
             /\ pc' = IF script = "test" THEN "disconnect" ELSE "check"
             /\ UNCHANGED <<i, nFalse, nThrow, error>>
       \/ /\ nFalse' = nFalse + 1
          /\ i' = i + 1
          /\ UNCHANGED <<validated, meta, nThrow, pc, error>>
       \/ /\ nThrow' = nThrow + 1
          /\ pc' = IF script = "test" THEN "disconnect" ELSE "crashed"
          /\ error' = IF script = "test" THEN error
                      ELSE [msg |-> "txnNotFound", hash |-> UndefinedV]
          /\ UNCHANGED <<validated, meta, nFalse, i>>
    /\ UNCHANGED <<script, isValid, wallet, unsignedTx, transaction, signingInput, result, calls,
                   netVars>>

\* a validated response does not leave the loop: the break / return missing
PollAttemptNoBreak ==
    /\ script \in {"test", "example"}
    /\ pc = "poll"
    /\ LoopCondition
    /\ \/ \E r \in TransactionResults :
             /\ validated' = TRUE
             /\ meta' = r
             /\ i' = i + 1
             /\ UNCHANGED <<nFalse, nThrow, pc>>
       \/ /\ nFalse' = nFalse + 1
          /\ i' = i + 1
          /\ UNCHANGED <<validated, meta, nThrow, pc>>
       \/ /\ nThrow' = nThrow + 1
          /\ i' = i + 1
          /\ UNCHANGED <<validated, meta, nFalse, pc>>
    /\ UNCHANGED <<script, isValid, wallet, unsignedTx, transaction, signingInput, result, calls,
                   error, netVars>>

\* One iteration of the loop: part_000 lines 152-177,
\* local_signing_example.js lines 139-149
PollAttempt ==
    /\ script \in {"test", "example"}
    /\ pc = "poll"
    /\ LoopCondition
    /\ \/ \E r \in TransactionResults :
             /\ validated' = TRUE
             /\ meta' = r
             /\ pc' = IF script = "test" THEN "disconnect" ELSE "check"
             /\ UNCHANGED <<i, nFalse, nThrow>>
       \/ /\ nFalse' = nFalse + 1
          /\ i' = i + 1
          /\ UNCHANGED <<validated, meta, nThrow, pc>>
       \/ /\ nThrow' = nThrow + 1
          /\ i' = i + 1
          /\ UNCHANGED <<validated, meta, nFalse, pc>>
    /\ UNCHANGED <<script, isValid, wallet, unsignedTx, transaction, signingInput, result, calls,
                   error, netVars>>

\* The loop ends without a validated response: part_000 falls through to line 193,
\* local_signing_example.js line 150 throws
PollExhausted ==
    /\ script \in {"test", "example"}
    /\ pc = "poll"
    /\ ~LoopCondition
    /\ IF script = "test"
       THEN pc' = "disconnect" /\ error' = error
       ELSE pc' = "crashed" /\ error' = [msg |-> ValidationTimeout, hash |-> txHash]
    /\ UNCHANGED <<script, isValid, wallet, unsignedTx, transaction, signingInput, result, calls,
                   pollVars, netVars>>

\* local_signing_example.js lines 155-159
CheckResult ==
    /\ script = "example"
    /\ pc = "check"
    /\ IF meta # "tesSUCCESS"
       THEN connected' = FALSE /\ pc' = "exited"
       ELSE connected' = connected /\ pc' = "disconnect"
    /\ UNCHANGED <<script, isValid, wallet, unsignedTx, transaction, signingInput, result, calls,
                   error, pollVars, submitted, engine_result, txHash>>

\* part_000 line 193; local_signing_example.js line 172
Disconnect ==
    /\ script \in {"test", "example"}
    /\ pc = "disconnect"
    /\ connected' = FALSE
    /\ pc' = "done"
    /\ UNCHANGED <<script, isValid, wallet, unsignedTx, transaction, signingInput, result, calls,
                   error, pollVars, submitted, engine_result, txHash>>

Next ==
    \/ CoSignCall
    \/ CoSignAgain
    \/ Autofill
    \/ BrokerSign
    \/ Verify
    \/ ExampleCopy
    \/ ExampleDelete
    \/ CounterpartySign
    \/ Submit
    \/ PollAttempt
    \/ PollExhausted
    \/ CheckResult
    \/ Disconnect

Spec == Init /\ [][Next]_vars

\* Every awaited timer and request of the poll completes, so the loop goes on
\* until it ends.
FairSpec == Spec /\ WF_vars(PollAttempt) /\ WF_vars(PollExhausted)

\* Every awaited call of lines 138-193 completes: the poll steps as above, and the
\* client.disconnect() that follows the try/catch.
FairFlowSpec == FairSpec /\ WF_vars(Disconnect)

----------------------------------------------------------------------------
(* Properties *)

\* the structured transaction the counterparty step works on
Decoded == getDecodedTransaction(transaction)

FirstPartySigned(tx) == Has(tx.v, "TxnSignature") /\ Has(tx.v, "SigningPubKey")

\* the counterparty step has just produced a transaction from the value in transaction
CounterSigned ==
    /\ result.tx.type = "object"
    /\ script = "call" => pc = "returned"

\* signLoanSetByCounterparty has just produced a transaction
CoSigned == CounterSigned /\ script \in {"call", "test"}

\* the payload a signature value was made over
PayloadOf(signature) == signature.s

CounterpartySignatureOf(tx) == Get(tx.v, "CounterpartySignature")

\* C1: whenever the counterparty step has computed a signing payload, the object it
\* hashed still carried the first party's TxnSignature and SigningPubKey: it had
\* exactly the fields of the first-party-signed transaction, none removed.
C1_HashedWithSignatureFields ==
    signingInput.type = "object" =>
        /\ Has(signingInput.v, "TxnSignature")
        /\ Has(signingInput.v, "SigningPubKey")
        /\ FieldSet(signingInput.v) = FieldSet(Decoded.v) \ {<<"CounterpartySignature",
                                            CounterpartySignatureOf(Decoded)>>}

\* C2: after signLoanSetByCounterparty succeeds, the payload under the counterparty's
\* signature is the payload under the first party's signature.
C2_SamePayloadAsFirstParty ==
    CoSigned =>
        PayloadOf(Get(CounterpartySignatureOf(result.tx).s, "TxnSignature"))
            = PayloadOf(Get(result.tx.v, "TxnSignature"))

C2_Witness ==
    /\ script = "test"
    /\ pc = "submit"
    /\ CoSigned
    /\ Get(result.tx.v, "TxnSignature") = sign(encodeForSigning(Decoded), loanBrokerWallet.privateKey)
    /\ Has(CounterpartySignatureOf(result.tx).s, "TxnSignature")

\* C3: for every first-party-signed transaction, the payload hashed after deleting
\* TxnSignature and SigningPubKey (local_signing_example.js) differs from the payload
\* hashed with the fields in place (signLoanSetByCounterparty).
C3_DeletingChangesPayload ==
    (transaction.type # "undefined" /\ FirstPartySigned(Decoded)) =>
        PayloadOf(Get(CounterpartySignatureOf(
                          exampleCounterpartySign(wallet, Decoded).tx).s, "TxnSignature"))
            # PayloadOf(computeSignature(Decoded, wallet.privateKey))

C3_Witness ==
    /\ script = "example"
    /\ pc = "submit"
    /\ FirstPartySigned(Decoded)
    /\ PayloadOf(Get(CounterpartySignatureOf(result.tx).s, "TxnSignature"))
           = encodeForSigning(signingInput).v
    /\ ~Has(signingInput.v, "SigningPubKey")

\* C4: the transaction returned by signLoanSetByCounterparty has the fields of the
\* transaction it was given, with the same values, and one more field,
\* CounterpartySignature.
C4_OnlyCounterpartySignatureAdded ==
    CoSigned =>
        /\ ~Has(Decoded.v, "CounterpartySignature")
        /\ FieldSet(result.tx.v)
               = FieldSet(transaction.v)
                     \cup {<<"CounterpartySignature", CounterpartySignatureOf(result.tx)>>}
        /\ Names(result.tx.v) = Names(transaction.v) \cup {"CounterpartySignature"}
        /\ Get(result.tx.v, "TxnSignature") = Get(transaction.v, "TxnSignature")
        /\ Get(result.tx.v, "SigningPubKey") = Get(transaction.v, "SigningPubKey")

C4_Witness ==
    /\ script = "call"
    /\ pc = "returned"
    /\ transaction.type = "object"
    /\ Has(result.tx.v, "CounterpartySignature")
    /\ Has(result.tx.v, "TxnSignature")

\* signLoanSetByCounterparty has just been called on the value in transaction
Called == script = "call" /\ pc \in {"returned", "thrown"}

\* C5 as stated: a call on any transaction that carries CounterpartySignature fails
\* with AlreadyCounterSigned.
C5_Original ==
    (Called /\ Has(Decoded.v, "CounterpartySignature")) =>
        pc = "thrown" /\ error.msg = AlreadyCounterSigned

\* C5 (amended): a call on a LoanSet transaction that carries CounterpartySignature
\* fails with AlreadyCounterSigned and returns nothing; so a call on the output of a
\* successful call always fails that way, and the signature is never replaced or doubled.
C5_AlreadyCounterSigned ==
    /\ (Called /\ Get(Decoded.v, "TransactionType") = Str("LoanSet")
               /\ Has(Decoded.v, "CounterpartySignature")) =>
           /\ pc = "thrown"
           /\ error.msg = AlreadyCounterSigned
           /\ result.tx = Undefined /\ result.tx_blob = Undefined
    /\ (script = "call" /\ calls >= 2) =>
           /\ pc = "thrown"
           /\ error.msg = AlreadyCounterSigned
           /\ result.tx = Undefined

C5_Witness ==
    /\ script = "call"
    /\ calls = 2
    /\ pc = "thrown"
    /\ Has(Decoded.v, "CounterpartySignature")
    /\ Get(Decoded.v, "TransactionType") = Str("LoanSet")

\* C6: a call on a LoanSet transaction without CounterpartySignature fails with
\* MissingFirstPartySignature when TxnSignature or SigningPubKey is absent, and does
\* not fail that way when both are present.
C6_MissingFirstPartySignature ==
    (Called /\ Get(Decoded.v, "TransactionType") = Str("LoanSet")
            /\ ~Has(Decoded.v, "CounterpartySignature")) =>
        IF FirstPartySigned(Decoded)
        THEN pc = "returned" /\ error.msg = ""
        ELSE pc = "thrown" /\ error.msg = MissingFirstPartySignature

C6_Witness ==
    /\ Called
    /\ pc = "thrown"
    /\ error.msg = MissingFirstPartySignature
    /\ Has(Decoded.v, "TxnSignature")
    /\ ~Has(Decoded.v, "SigningPubKey")

\* C7: a call on a transaction whose TransactionType is not LoanSet fails with
\* UnsupportedTransactionType, whatever signature fields it has.
C7_UnsupportedTransactionType ==
    (Called /\ Get(Decoded.v, "TransactionType") # Str("LoanSet")) =>
        pc = "thrown" /\ error.msg = UnsupportedTransactionType

C7_Witness ==
    /\ Called
    /\ error.msg = UnsupportedTransactionType
    /\ Get(Decoded.v, "TransactionType") = Str("Payment")
    /\ Has(Decoded.v, "CounterpartySignature")
    /\ ~Has(Decoded.v, "TxnSignature")

\* the structure lines 41-44 build, for the transaction given and the wallet used
CounterpartySignatureShape ==
    LET cs == CounterpartySignatureOf(result.tx)
    IN  /\ cs.k = "obj"
        /\ Names(cs.s) = {"SigningPubKey", "TxnSignature"}
        /\ Len(cs.s) = 2
        /\ Get(cs.s, "SigningPubKey") = Str(wallet.publicKey)
        /\ Get(cs.s, "TxnSignature") = sign(encodeForSigning(Decoded), wallet.privateKey)

\* C8 as stated: the structure has exactly the two fields, made from the
\* counterparty's keys, and never holds the first party's key or signature.
C8_Original ==
    CoSigned =>
        /\ CounterpartySignatureShape
        /\ Get(CounterpartySignatureOf(result.tx).s, "SigningPubKey")
               # Get(result.tx.v, "SigningPubKey")
        /\ Get(CounterpartySignatureOf(result.tx).s, "TxnSignature")
               # Get(result.tx.v, "TxnSignature")

\* C8 (amended): the structure has exactly the two fields SigningPubKey, the public
\* key of the wallet passed in, and TxnSignature, the signature of the signing
\* payload with that wallet's private key; it holds the first party's key or
\* signature only when the wallet passed in is the first party's own.
C8_CounterpartySignatureValue ==
    CoSigned =>
        /\ CounterpartySignatureShape
        /\ Str(wallet.publicKey) # Get(result.tx.v, "SigningPubKey") =>
               /\ Get(CounterpartySignatureOf(result.tx).s, "SigningPubKey")
                      # Get(result.tx.v, "SigningPubKey")
               /\ Get(CounterpartySignatureOf(result.tx).s, "TxnSignature")
                      # Get(result.tx.v, "TxnSignature")

C8_Witness ==
    /\ CoSigned
    /\ script = "call"
    /\ wallet = borrowerWallet
    /\ Get(result.tx.v, "SigningPubKey") = Str(loanBrokerWallet.publicKey)
    /\ Get(CounterpartySignatureOf(result.tx).s, "SigningPubKey") = Str(borrowerWallet.publicKey)

\* waitForValidation has returned the validated transaction
PollReturned == pc \in {"check", "disconnect", "done", "exited"}

\* waitForValidation has thrown its timeout error
PollTimedOut == pc = "crashed" /\ error.msg = ValidationTimeout

\* C9: waitForValidation returns exactly when one of its at most 20 status requests
\* reports validated (19 times false then true returns), and throws its timeout
\* error exactly when all 20 report otherwise (20 times false throws).
C9_PollOutcome ==
    script = "example" =>
        /\ PollReturned => (validated /\ i + 1 <= maxRetries /\ error = NoError)
        /\ validated => PollReturned
        /\ PollTimedOut => (~validated /\ i = maxRetries /\ nFalse + nThrow = maxRetries)
        /\ (pc = "poll" \/ PollReturned \/ PollTimedOut) => nFalse + nThrow = i
        /\ (nFalse = maxRetries /\ pc # "poll") => PollTimedOut
        /\ (~validated /\ i = maxRetries /\ pc # "poll") => PollTimedOut

C9_Witness ==
    /\ script = "example"
    /\ pc = "check"
    /\ validated
    /\ nFalse = maxRetries - 1
    /\ nThrow = 0
    /\ i = maxRetries - 1

\* C10: in both scripts, once the poll has used all its attempts without a validated
\* response, the script has ended with the timeout error naming the awaited hash,
\* and has not completed normally.
C10_ExhaustedPollIsTimeout ==
    (script \in {"test", "example"} /\ ~validated /\ i = Limit /\ pc # "poll") =>
        /\ pc = "crashed"
        /\ error = [msg |-> ValidationTimeout, hash |-> txHash]

\* status requests issued so far by the validation poll
Requests == nFalse + nThrow + (IF validated THEN 1 ELSE 0)

\* C11: in both scripts, after a submission answered with an engine result other
\* than tesSUCCESS the script issues no status request for the transaction and
\* does not enter the validation poll.
C11_RejectedSubmissionNotPolled ==
    (script \in {"test", "example"} /\ engine_result \notin {"", "tesSUCCESS"}) =>
        /\ Requests = 0
        /\ pc \notin {"poll", "check"}

\* C12: a call of signLoanSetByCounterparty, returning or throwing, leaves the value
\* the caller passed as it was; the counterparty signature is on the returned
\* transaction only.
C12_ArgumentUnchanged ==
    [][(pc \in {"call", "cosign", "hash"} /\ pc' \in {"returned", "thrown", "submit", "crashed"}) =>
          /\ transaction' = transaction
          /\ (~Has(Decoded.v, "CounterpartySignature") /\ pc' \in {"returned", "submit"}) =>
                 /\ Has(result'.tx.v, "CounterpartySignature")
                 /\ ~Has(transaction'.v, "CounterpartySignature")]_vars

C12_Witness ==
    /\ script = "call"
    /\ pc = "returned"
    /\ calls = 1
    /\ transaction.type = "object"
    /\ transaction.v # Decoded.v
    /\ ~Has(transaction.v, "CounterpartySignature")
    /\ Has(result.tx.v, "CounterpartySignature")

\* the other form of the value in transaction: the serialization of an object, the
\* decoded object of a serialization
OtherForm == IF transaction.type = "object" THEN encode(transaction) ELSE decode(transaction)

\* C13: a call on a structured transaction and a call on its serialization, with
\* the same wallet, end the same way: the same error, or the same returned
\* transaction, tx_blob and hash.
C13_ObjectAndBlobAgree ==
    (script \in {"call", "test"} /\ pc \in {"returned", "thrown", "submit"}) =>
        /\ Returned(signLoanSetByCounterparty(wallet, OtherForm)) = result
        /\ signLoanSetByCounterparty(wallet, OtherForm).error = error.msg

C13_Witness ==
    /\ script = "call"
    /\ pc = "returned"
    /\ calls = 1
    /\ transaction.type = "object"
    /\ transaction.v # Decoded.v
    /\ result.tx_blob = signLoanSetByCounterparty(wallet, encode(transaction)).tx_blob
    /\ result.hash.k = "hash"

\* C14: for the transaction a successful call returns, decoding its serialization
\* gives the transaction back, CounterpartySignature included, and the returned
\* tx_blob and hash are those of that transaction.
C14_ReturnedRoundTrip ==
    CoSigned =>
        /\ decode(encode(result.tx)) = result.tx
        /\ Has(decode(result.tx_blob).v, "CounterpartySignature")
        /\ result.tx_blob = encode(result.tx)
        /\ result.hash = hashSignedTx(encode(result.tx))

C14_Witness ==
    /\ CoSigned
    /\ script = "call"
    /\ transaction.type = "string"
    /\ decode(result.tx_blob) = result.tx
    /\ CounterpartySignatureOf(decode(result.tx_blob)).k = "obj"

\* the transaction values a script holds
FlowTransactions == {unsignedTx, transaction, signingInput, result.tx, result.tx_blob, submitted}

\* C15: in both scripts, a transaction value with CounterpartySignature also has
\* the first party's TxnSignature and SigningPubKey.
C15_CounterpartySignatureNeedsFirstParty ==
    script \in {"test", "example"} =>
        \A t \in FlowTransactions :
            Has(t.v, "CounterpartySignature") =>
                /\ Get(t.v, "TxnSignature").k = "sig"
                /\ Get(t.v, "TxnSignature").a = loanBrokerWallet.privateKey
                /\ Get(t.v, "SigningPubKey") = Str(loanBrokerWallet.publicKey)

C15_Witness ==
    /\ script = "example"
    /\ pc = "poll"
    /\ Has(result.tx.v, "CounterpartySignature")
    /\ Has(submitted.v, "CounterpartySignature")
    /\ Has(submitted.v, "TxnSignature")

\* the signature status of a transaction value: 0 Unsigned, 1 FirstPartySigned,
\* 2 FullySigned
Rank(t) ==
    IF Has(t.v, "CounterpartySignature") THEN 2
    ELSE IF FirstPartySigned(t) THEN 1
    ELSE 0

\* the transaction a program is working on, in its most advanced form
Current ==
    IF result.tx # Undefined THEN result.tx
    ELSE IF transaction # Undefined THEN Decoded
    ELSE unsignedTx

\* C16: signature status only moves forward, one stage at a time: no step lowers
\* the status of a transaction value it keeps, the transaction worked on never
\* goes from Unsigned to FullySigned in one step, and it goes from FirstPartySigned
\* to FullySigned only in a call of signLoanSetByCounterparty.
C16_StatusOnlyForward ==
    [][/\ \A n \in 1..4 :
              LET old == <<unsignedTx, transaction, signingInput, result.tx>>[n]
                  new == <<unsignedTx', transaction', signingInput', result'.tx>>[n]
              IN  (old # Undefined /\ new # Undefined) => Rank(new) >= Rank(old)
       /\ Rank(Current') >= Rank(Current)
       /\ Rank(Current') <= Rank(Current) + 1
       /\ (Rank(Current) = 1 /\ Rank(Current') = 2) =>
              (script \in {"call", "test"} /\ pc \in {"call", "cosign"})]_vars

\* C17: a call that fails a precondition computes no signing payload, returns no
\* transaction, blob or hash, leaves the value it was given as it was, and is the
\* last thing the caller does: it is not called again.
C17_FailedCallLeavesNothing ==
    [][/\ pc # "thrown"
       /\ (pc' = "thrown" \/ (pc' = "crashed" /\ pc = "cosign")) =>
              /\ error'.msg \in {UnsupportedTransactionType, AlreadyCounterSigned,
                                 MissingFirstPartySignature}
              /\ result'.tx = Undefined
              /\ result'.tx_blob = Undefined
              /\ result'.hash = UndefinedV
              /\ signingInput' = signingInput
              /\ transaction' = transaction
              /\ calls' = calls + 1]_vars

C17_Witness ==
    /\ script = "call"
    /\ pc = "thrown"
    /\ calls = 1
    /\ error.msg = AlreadyCounterSigned
    /\ signingInput = Undefined
    /\ result.tx = Undefined
    /\ Has(Decoded.v, "CounterpartySignature")

\* C18: a status request that throws or reports validated: false uses up one
\* attempt and leaves the poll running; the poll ends without a validated response
\* only when all attempts are used.
C18_FailedAttemptIsRetried ==
    /\ [][(pc = "poll" /\ (nFalse' # nFalse \/ nThrow' # nThrow)) =>
              /\ nFalse' + nThrow' = nFalse + nThrow + 1
              /\ i' = i + 1
              /\ pc' = "poll"
              /\ error' = error
              /\ ~validated']_vars
    /\ []((Requests > 0 /\ ~validated /\ pc # "poll") => i = Limit)

C18_Witness ==
    /\ script = "test"
    /\ pc = "poll"
    /\ nThrow = 2
    /\ nFalse = 1
    /\ i = 3
    /\ ~validated

\* C19: the poll terminates: it issues at most 20 status requests, none after a
\* response that reports validated, and it always comes to an end.
C19_PollTerminates ==
    /\ [](Requests <= Limit /\ Limit = maxRetries /\ i <= Limit)
    /\ [][validated => (Requests' = Requests /\ i' = i /\ pc' # "poll")]_vars
    /\ (pc = "poll" ~> pc # "poll")

C19_Witness ==
    /\ script = "test"
    /\ pc = "done"
    /\ validated
    /\ Requests = PollLimit
    /\ nThrow = PollLimit - 1

\* C20: in both scripts the value passed to client.submit is the transaction the
\* counterparty step produced, unchanged since, and it carries TxnSignature,
\* SigningPubKey and CounterpartySignature.
C20_SubmitsTheCoSignedTransaction ==
    /\ []((script \in {"test", "example"} /\ submitted # Undefined) =>
              /\ submitted = IF script = "test" THEN result.tx ELSE encode(result.tx)
              /\ Rank(getDecodedTransaction(submitted)) = 2
              /\ FirstPartySigned(getDecodedTransaction(submitted))
              /\ encode(submitted) = result.tx_blob)
    /\ [][(script \in {"test", "example"} /\ result.tx # Undefined) => result' = result]_vars

C20_Witness ==
    /\ script = "test"
    /\ pc = "poll"
    /\ submitted = result.tx
    /\ engine_result = "tesSUCCESS"
    /\ Rank(submitted) = 2

\* C21: a call reports the first precondition that fails, in the order type,
\* already counter-signed, missing first-party signature: a transaction that is not
\* a LoanSet fails with UnsupportedTransactionType whatever its signature fields, a
\* LoanSet that carries CounterpartySignature fails with AlreadyCounterSigned even
\* when TxnSignature or SigningPubKey is absent, and MissingFirstPartySignature is
\* reported only for a LoanSet without CounterpartySignature.
C21_FirstFailedPreconditionReported ==
    Called =>
        LET loanSet  == Get(Decoded.v, "TransactionType") = Str("LoanSet")
            counter  == Has(Decoded.v, "CounterpartySignature")
            unsigned == ~Has(Decoded.v, "TxnSignature") \/ ~Has(Decoded.v, "SigningPubKey")
        IN  /\ ~loanSet => error.msg = UnsupportedTransactionType
            /\ (loanSet /\ counter) => error.msg = AlreadyCounterSigned
            /\ (loanSet /\ ~counter /\ unsigned) => error.msg = MissingFirstPartySignature
            /\ (loanSet /\ ~counter /\ ~unsigned) => error.msg = ""
            /\ (pc = "thrown") = (error.msg # "")

C21_Witness ==
    /\ Called
    /\ calls = 1
    /\ Get(Decoded.v, "TransactionType") = Str("LoanSet")
    /\ Has(Decoded.v, "CounterpartySignature")
    /\ ~Has(Decoded.v, "TxnSignature")
    /\ ~Has(Decoded.v, "SigningPubKey")
    /\ error.msg = AlreadyCounterSigned

\* the steps of the test flow that follow the verification of line 105
AfterVerify == {"cosign", "submit", "poll", "disconnect", "done"}

\* C22: in the flow of local_signing_test.ts the counterparty step and everything
\* after it are reached only when verifySignature answered true for the signed blob,
\* whose first-party signature does verify; when it answered false the flow ends at
\* once with the error 'Invalid loan broker signature!', signLoanSetByCounterparty
\* is never called and nothing is ever submitted.
C22_CoSignOnlyAfterVerified ==
    /\ []((script = "test" /\ (pc \in AfterVerify \/ calls > 0 \/ result.tx # Undefined
                                \/ submitted # Undefined)) =>
              /\ isValid
              /\ verifySignature(transaction))
    /\ [][(script = "test" /\ pc = "verify") =>
              IF isValid'
              THEN pc' = "cosign" /\ calls' = 0 /\ submitted' = Undefined
              ELSE /\ pc' = "crashed"
                   /\ error'.msg = InvalidSignature
                   /\ calls' = 0
                   /\ result' = result /\ result.tx = Undefined
                   /\ submitted' = Undefined]_vars
    /\ []((script = "test" /\ pc = "crashed") =>
              /\ ~isValid
              /\ error.msg = InvalidSignature
              /\ calls = 0
              /\ signingInput = Undefined
              /\ result.tx = Undefined
              /\ submitted = Undefined)
    /\ [][pc # "crashed"]_vars

C22_Witness ==
    /\ script = "test"
    /\ pc = "crashed"
    /\ ~isValid
    /\ verifySignature(transaction)
    /\ error.msg = InvalidSignature
    /\ calls = 0
    /\ submitted = Undefined

\* C23: in the flow of local_signing_test.ts, once client.submit has been called the
\* script stays on the way to client.disconnect() and the client is eventually
\* disconnected, whether submit was accepted and the transaction validated, was
\* accepted and not validated within the 20 polls, was rejected by the engine, or
\* threw; the client stays disconnected.
C23_DisconnectedAfterSubmit ==
    /\ []((script = "test" /\ submitted # Undefined) =>
              /\ pc \in {"poll", "disconnect", "done"}
              /\ connected = (pc # "done")
              /\ (pc = "poll" => engine_result = "tesSUCCESS"))
    /\ ((script = "test" /\ submitted # Undefined) ~> (pc = "done" /\ ~connected))
    /\ [][~connected => ~connected']_vars

C23_Witness ==
    /\ script = "test"
    /\ pc = "done"
    /\ ~connected
    /\ submitted = result.tx
    /\ submitted # Undefined
    /\ engine_result = ""
    /\ txHash = UndefinedV
    /\ Requests = 0

====
